---- MODULE Spec2Model ----
(***************************************************************************)
(* Seed-sampling strategies of MRtrix3 tractography                        *)
(* (src/dwi/tractography/seeding/basic.cpp) and the read/write flags of    *)
(* ImageIO::Base (lib/image_io/base.h).                                    *)
(*                                                                         *)
(* Axis d of the C++ code (0, 1, 2) is position d+1 of a TLA+ triple.      *)
(***************************************************************************)
EXTENDS Integers, Sequences, FiniteSets, TLC

\* ------------------------------------------------------------------ bounds
\* largest number of voxels of a grid (all shapes s0*s1*s2 <= MaxVoxels)
MaxVoxels == 4
\* largest per-voxel quota of Random_per_voxel
MaxNum == 2
\* largest oversampling factor of Grid_per_voxel
MaxOS == 2
\* largest number of threads calling get_seed on one instance
MaxThreads == 2
\* answers of false a single caller collects before it stops calling
MaxFalse == 2
\* how far index(0) is followed beyond size(0)
MaxOverrun == 3
\* Sphere: candidate coordinates are c/Res for c in -Res..Res
Res == 2
\* Sphere: largest radius, and largest centre coordinate in absolute value
MaxRad == 2
MaxCentre == 1
\* Rejection: largest density value of a voxel (the smallest is -1)
MaxDensity == 2
\* ImageIO::Base: most entries of files, largest segsize
MaxFiles == 2
MaxSegsize == 3

\* std::numeric_limits<size_t>::max(), held in 31 bits: it is only compared
\* with voxel indices and never incremented
SizeMax == 2147483647

VARIABLES
  strategy,   \* which strategy class the instance is
  nthreads,   \* number of calling threads
  size,       \* mask.size(0..2) / vox.size(0..2)
  value,      \* voxel data of the image behind the cursor
  index,      \* mask.index(0..2): the shared cursor
  inc,        \* Random_per_voxel::inc
  num,        \* Random_per_voxel::num
  pos,        \* Grid_per_voxel::pos
  os,         \* Grid_per_voxel::os
  expired,    \* the exhaustion flag
  mutex,      \* thread holding the std::mutex, 0 when free
  pc,         \* position of every thread inside get_seed
  nfalse,     \* history: false returns received by every thread
  log,        \* history: the returns of get_seed, in order
  steps,      \* history: executions of the cursor increment (lines 84-90)
  oob,        \* history: mask.value() was read outside the grid
  chosen,     \* history: cursor and counters a call settled on, until it returns
  iters,      \* history: iterations of the do-loop in the call holding the mutex
  seed,       \* SeedMask, Rejection: the cursor copy local to every call
  rad,        \* Sphere::rad
  p,          \* Sphere: the caller's point, in units of 1/Res
  selector,   \* Rejection: the threshold drawn by every call, in halves
  max,        \* Rejection::max
  volume,     \* Rejection: Base::volume
  bottom,     \* Rejection constructor: lower corner of the bounding box
  top,        \* Rejection constructor: upper corner of the bounding box
  image,      \* Rejection::image, the cropped working volume
  ctor,       \* Rejection constructor: where it is, or how it ended
  is_new,     \* ImageIO::Base::is_new
  writable,   \* ImageIO::Base::writable
  files,      \* ImageIO::Base::files
  segsize,    \* ImageIO::Base::segsize
  addresses,  \* ImageIO::Base::addresses
  last        \* history: the member function of ImageIO::Base called last

travVars == <<strategy, nthreads, size, value, index, inc, num, pos, os,
              expired, mutex, pc, nfalse, log, steps, oob, chosen, iters>>

\* the variables no traversal strategy touches
\* the members of ImageIO::Base (base.h lines 94, 110-112)
ioVars == <<is_new, writable, files, segsize, addresses, last>>

otherVars == <<seed, rad, p, selector, max, volume, bottom, top, image, ctor,
               ioVars>>

vars == <<travVars, otherVars>>

\* ------------------------------------------------------------------- grids
Shapes == { s \in (1..MaxVoxels) \X (1..MaxVoxels) \X (1..MaxVoxels) :
              s[1] * s[2] * s[3] <= MaxVoxels }

Grid(sz) == (0..(sz[1]-1)) \X (0..(sz[2]-1)) \X (0..(sz[3]-1))

InGrid(idx, sz) == \A d \in 1..3 : 0 <= idx[d] /\ idx[d] < sz[d]

Threads == 1..nthreads

Zero3 == <<0, 0, 0>>

MaxI(a, b) == IF a >= b THEN a ELSE b

\* what a read of mask.value() at idx can yield: the voxel inside the grid,
\* anything outside of it (an out-of-bounds read of the image buffer)
MaskValue(idx) == IF InGrid(idx, size) THEN {value[idx]} ELSE BOOLEAN

\* the cursor increment with the carry of axis 1 tested against size(2)
NextIndexWrongAxis(idx, sz) ==
  IF idx[3] + 1 = sz[3]
    THEN IF idx[2] + 1 = sz[3]
           THEN <<idx[1] + 1, 0, 0>>
           ELSE <<idx[1], idx[2] + 1, 0>>
    ELSE <<idx[1], idx[2], idx[3] + 1>>

\* one execution of the body of the do-loop: the cursor increment with carry
NextIndex(idx, sz) ==
  IF idx[3] + 1 = sz[3]
    THEN IF idx[2] + 1 = sz[2]
           THEN <<idx[1] + 1, 0, 0>>
           ELSE <<idx[1], idx[2] + 1, 0>>
    ELSE <<idx[1], idx[2], idx[3] + 1>>

\* the return of a call: what the caller gets, and from which cursor state
Ret(r, vox, sub) == [ret |-> r, vox |-> vox, pos |-> sub]

ReturnFalse(t) ==
  /\ log' = Append(log, Ret(FALSE, Zero3, Zero3))
  /\ nfalse' = [nfalse EXCEPT ![t] = @ + 1]
  /\ pc' = [pc EXCEPT ![t] = "call"]

\* values of the variables a strategy does not have
NoImage == [size |-> Zero3, data |-> <<>>]
NoSeedMask == seed = <<>>
NoSphere == rad = 0 /\ p = Zero3
NoRejection ==
  /\ selector = <<>> /\ max = 0 /\ volume = 0
  /\ bottom = Zero3 /\ top = Zero3 /\ image = NoImage /\ ctor = "none"
NoCall == [op |-> "none", arg |-> FALSE]
NoImageIO ==
  /\ is_new = FALSE /\ writable = FALSE /\ files = <<>> /\ segsize = 0
  /\ addresses = <<>> /\ last = NoCall

\* the callers: with several threads every thread calls get_seed until it is
\* answered false; a single caller goes on calling after that, MaxFalse
\* answers of false in all
Calling(t) == nfalse[t] < (IF nthreads = 1 THEN MaxFalse ELSE 1)

\* ------------------------------------------------- construction (basic.h)
InitTraversal ==
  /\ strategy \in {"random", "grid"}
  /\ nthreads \in 1..MaxThreads
  /\ size \in Shapes
  /\ value \in [Grid(size) -> BOOLEAN]
  /\ index = <<0, 0, -1>>
  /\ inc = 0
  /\ num \in (IF strategy = "random" THEN 1..MaxNum ELSE {1})
  /\ os \in (IF strategy = "grid" THEN 1..MaxOS ELSE {1})
  /\ pos = (IF strategy = "grid" THEN <<os, os, os>> ELSE Zero3)
  /\ expired = FALSE
  /\ mutex = 0
  /\ pc = [t \in Threads |-> "call"]
  /\ nfalse = [t \in Threads |-> 0]
  /\ log = <<>>
  /\ steps = 0
  /\ oob = FALSE
  /\ chosen = <<>> /\ iters = 0
  /\ NoImageIO
  /\ NoSeedMask /\ NoSphere /\ NoRejection

\* ------------------------------------------ Random_per_voxel::get_seed
\* lines 75-76: the test of expired, made without the mutex. It reads the
\* flag as it is at that moment; a read that misses a write made just before
\* behaves like this test made just before that write, so those outcomes are
\* among the interleavings.
RPV_expired(t) ==
  /\ strategy = "random"
  /\ pc[t] = "call"
  /\ Calling(t)
  /\ IF expired
       THEN ReturnFalse(t)
       ELSE /\ pc' = [pc EXCEPT ![t] = "wait"]
            /\ UNCHANGED <<log, nfalse>>
  /\ UNCHANGED <<chosen, iters, strategy, nthreads, size, value, index, inc, num, pos, os,
                 expired, mutex, steps, oob>>
  /\ UNCHANGED otherVars

\* a lock that is taken whether or not another thread holds it
MutexIgnored == TRUE

\* lines 78 / 118: what std::lock_guard waits for
MutexFree == mutex = 0

\* line 78: std::lock_guard
RPV_lock(t) ==
  /\ strategy = "random"
  /\ pc[t] = "wait"
  /\ MutexFree
  /\ mutex' = t
  /\ iters' = 0
  /\ pc' = [pc EXCEPT ![t] = "test"]
  /\ UNCHANGED <<chosen, strategy, nthreads, size, value, index, inc, num, pos, os,
                 expired, nfalse, log, steps, oob>>
  /\ UNCHANGED otherVars

\* the value of inc++ == num
QuotaSpentPostIncrement(i, n) == i = n

\* line 80: the value of ++inc == num, given inc before the increment
\* (inc < num throughout, so the 32-bit counter never wraps)
QuotaSpent(i, n) == i + 1 = n

\* lines 80-81: mask.index(2) < 0 || ++inc == num, short-circuit
RPV_quota(t) ==
  /\ strategy = "random"
  /\ pc[t] = "test"
  /\ IF index[3] < 0
       THEN /\ inc' = 0
            /\ pc' = [pc EXCEPT ![t] = "loop"]
            /\ chosen' = chosen
       ELSE IF QuotaSpent(inc, num)
              THEN /\ inc' = 0
                   /\ pc' = [pc EXCEPT ![t] = "loop"]
                   /\ chosen' = chosen
              ELSE /\ inc' = inc + 1
                   /\ pc' = [pc EXCEPT ![t] = "emit"]
                   /\ chosen' = <<index, inc', pos>>
  /\ UNCHANGED <<iters, strategy, nthreads, size, value, index, num, pos, os,
                 expired, mutex, nfalse, log, steps, oob>>
  /\ UNCHANGED otherVars

\* lines 83-91 / 127-135: one iteration of the do-loop and its condition
Advance(t) ==
  /\ pc[t] = "loop"
  /\ LET nxt == NextIndex(index, size) IN
       /\ nxt[1] <= size[1] + MaxOverrun
       /\ index' = nxt
       /\ steps' = steps + 1
       /\ iters' = iters + 1
       /\ IF nxt[1] = size[1]
            THEN /\ pc' = [pc EXCEPT ![t] = "exit"]
                 /\ oob' = oob
            ELSE /\ oob' = (oob \/ ~InGrid(nxt, size))
                 /\ \E v \in MaskValue(nxt) :
                      pc' = [pc EXCEPT ![t] = IF v THEN "exit" ELSE "loop"]
  /\ UNCHANGED <<chosen, strategy, nthreads, size, value, inc, num, pos, os,
                 expired, mutex, nfalse, log>>
  /\ UNCHANGED otherVars

\* lines 93-96 / 136-139: the end of the grid sets expired and answers false
Exhausted(t) ==
  /\ pc[t] = "exit"
  /\ IF index[1] = size[1]
       THEN /\ expired' = TRUE
            /\ mutex' = 0
            /\ ReturnFalse(t)
            /\ chosen' = chosen
       ELSE /\ pc' = [pc EXCEPT ![t] = "emit"]
            /\ chosen' = <<index, inc, pos>>
            /\ UNCHANGED <<expired, mutex, nfalse, log>>
  /\ UNCHANGED <<iters, strategy, nthreads, size, value, index, inc, num, pos, os,
                 steps, oob>>
  /\ UNCHANGED otherVars

\* lines 99-102 / 144-146: the point is built from the cursor, the lock_guard
\* is released on return
Emit(t) ==
  /\ pc[t] = "emit"
  /\ log' = Append(log, Ret(TRUE, index, pos))
  /\ mutex' = 0
  /\ chosen' = <<>>
  /\ pc' = [pc EXCEPT ![t] = "call"]
  /\ UNCHANGED <<iters, strategy, nthreads, size, value, index, inc, num, pos, os,
                 expired, nfalse, steps, oob>>
  /\ UNCHANGED otherVars

RPV_advance(t) == strategy = "random" /\ Advance(t)
RPV_exhausted(t) == strategy = "random" /\ Exhausted(t)
RPV_emit(t) == strategy = "random" /\ Emit(t)

\* -------------------------------------------- Grid_per_voxel::get_seed
\* lines 115-116
GPV_expired(t) ==
  /\ strategy = "grid"
  /\ pc[t] = "call"
  /\ Calling(t)
  /\ IF expired
       THEN ReturnFalse(t)
       ELSE /\ pc' = [pc EXCEPT ![t] = "wait"]
            /\ UNCHANGED <<log, nfalse>>
  /\ UNCHANGED <<chosen, iters, strategy, nthreads, size, value, index, inc, num, pos, os,
                 expired, mutex, steps, oob>>
  /\ UNCHANGED otherVars

\* line 118
GPV_lock(t) ==
  /\ strategy = "grid"
  /\ pc[t] = "wait"
  /\ MutexFree
  /\ mutex' = t
  /\ iters' = 0
  /\ pc' = [pc EXCEPT ![t] = "test"]
  /\ UNCHANGED <<chosen, strategy, nthreads, size, value, index, inc, num, pos, os,
                 expired, nfalse, log, steps, oob>>
  /\ UNCHANGED otherVars

\* the sub-voxel counter wrapping one step late (> os for >= os)
NextPosLate(ps, o) ==
  IF ps[3] + 1 > o
    THEN IF ps[2] + 1 > o
           THEN IF ps[1] + 1 > o
                  THEN <<Zero3, TRUE>>
                  ELSE <<<<ps[1] + 1, 0, 0>>, FALSE>>
           ELSE <<<<ps[1], ps[2] + 1, 0>>, FALSE>>
    ELSE <<<<ps[1], ps[2], ps[3] + 1>>, FALSE>>

\* lines 120-125: the sub-voxel counter with carry, last axis fastest;
\* the result is <<new pos, all three axes wrapped>>
NextPos(ps, o) ==
  IF ps[3] + 1 >= o
    THEN IF ps[2] + 1 >= o
           THEN IF ps[1] + 1 >= o
                  THEN <<Zero3, TRUE>>
                  ELSE <<<<ps[1] + 1, 0, 0>>, FALSE>>
           ELSE <<<<ps[1], ps[2] + 1, 0>>, FALSE>>
    ELSE <<<<ps[1], ps[2], ps[3] + 1>>, FALSE>>

GPV_subvoxel(t) ==
  /\ strategy = "grid"
  /\ pc[t] = "test"
  /\ pos' = NextPos(pos, os)[1]
  /\ pc' = [pc EXCEPT ![t] = IF NextPos(pos, os)[2] THEN "loop" ELSE "emit"]
  /\ chosen' = IF NextPos(pos, os)[2] THEN chosen ELSE <<index, inc, pos'>>
  /\ UNCHANGED <<iters, strategy, nthreads, size, value, index, inc, num, os,
                 expired, mutex, nfalse, log, steps, oob>>
  /\ UNCHANGED otherVars

GPV_advance(t) == strategy = "grid" /\ Advance(t)
GPV_exhausted(t) == strategy = "grid" /\ Exhausted(t)
GPV_emit(t) == strategy = "grid" /\ Emit(t)

\* ------------------------------------------------------- specification
NextTraversal ==
  \/ \E t \in Threads : RPV_expired(t)
  \/ \E t \in Threads : RPV_lock(t)
  \/ \E t \in Threads : RPV_quota(t)
  \/ \E t \in Threads : RPV_advance(t)
  \/ \E t \in Threads : RPV_exhausted(t)
  \/ \E t \in Threads : RPV_emit(t)
  \/ \E t \in Threads : GPV_expired(t)
  \/ \E t \in Threads : GPV_lock(t)
  \/ \E t \in Threads : GPV_subvoxel(t)
  \/ \E t \in Threads : GPV_advance(t)
  \/ \E t \in Threads : GPV_exhausted(t)
  \/ \E t \in Threads : GPV_emit(t)

Init == InitTraversal

Next == NextTraversal

Spec == Init /\ [][Next]_vars

\* ==================================================================
\* Properties of the traversal strategies
\* ==================================================================
\* the calls answered true
Trues == { i \in 1..Len(log) : log[i].ret }

\* the voxels of the grid with a non-zero mask value
Masked == { v \in Grid(size) : value[v] }

\* the calls answered true from cursor voxel v
Seeds(v) == { i \in Trues : log[i].vox = v }

\* raster position of a voxel, axis 2 fastest and axis 0 slowest
Lin(v) == (v[1] * size[2] + v[2]) * size[3] + v[3]

\* position of a masked voxel among the masked voxels, in raster order
Rank(v) == Cardinality({ w \in Masked : Lin(w) < Lin(v) }) + 1

\* raster position of a sub-voxel counter, pos[2] fastest
PosLin(ps) == (ps[1] * os + ps[2]) * os + ps[3]

Cube == (0..(os-1)) \X (0..(os-1)) \X (0..(os-1))

\* every thread has been answered false and none is inside a call
Quiescent == \A t \in Threads : pc[t] = "call" /\ nfalse[t] >= 1

\* C1: Random_per_voxel run to exhaustion by any number of threads: every
\* true return comes from a masked voxel, every masked voxel gave exactly num
\* of them and the total is num times the number of masked voxels.
C1_RandomCoverage ==
  (strategy = "random" /\ Quiescent) =>
     /\ \A i \in Trues : log[i].vox \in Masked
     /\ \A v \in Masked : Cardinality(Seeds(v)) = num
     /\ Cardinality(Trues) = num * Cardinality(Masked)

\* C2: Random_per_voxel exhaustion is permanent: once expired is set or a
\* call has returned false, expired stays set and no later call returns true.
C2_ExhaustionPermanent ==
  [][ (strategy = "random" /\ (expired \/ \E i \in 1..Len(log) : ~log[i].ret))
        => /\ expired'
           /\ \A i \in (Len(log)+1)..Len(log') : ~log'[i].ret ]_vars

\* C3: Random_per_voxel with a single caller: call i returns true exactly
\* when i <= num * m, calls (j-1)*num+1 .. j*num come from the j-th masked
\* voxel in raster order, and every later call returns false.
C3_SingleCallerSequence ==
  (strategy = "random" /\ nthreads = 1) =>
     \A i \in 1..Len(log) :
        /\ log[i].ret <=> (i <= num * Cardinality(Masked))
        /\ log[i].ret =>
             /\ log[i].vox \in Masked
             /\ Rank(log[i].vox) = ((i - 1) \div num) + 1

C3_Witness ==
  /\ strategy = "random" /\ nthreads = 1 /\ num = 2
  /\ Cardinality(Masked) = 2
  /\ Len(log) = num * Cardinality(Masked) + 2
  /\ ~log[Len(log)].ret

\* C4: Grid_per_voxel with a single caller: the true returns are the first
\* os^3 * m calls, the i-th of them comes from the masked voxel of rank
\* (i-1) div os^3 + 1 with the sub-voxel counter of raster position
\* (i-1) mod os^3 (pos[2] fastest); so at exhaustion every masked voxel has
\* exactly os^3 seeds whose counters are all of {0..os-1}^3, and no other
\* voxel has any.
C4_GridCompleteness ==
  (strategy = "grid" /\ nthreads = 1) =>
     /\ \A i \in 1..Len(log) :
          /\ log[i].ret <=> (i <= os * os * os * Cardinality(Masked))
          /\ log[i].ret =>
               /\ log[i].vox \in Masked
               /\ Rank(log[i].vox) = ((i - 1) \div (os * os * os)) + 1
               /\ log[i].pos \in Cube
               /\ PosLin(log[i].pos) = (i - 1) % (os * os * os)
     /\ nfalse[1] >= 1 =>
          \A v \in Masked :
             /\ Cardinality(Seeds(v)) = os * os * os
             /\ { log[i].pos : i \in Seeds(v) } = Cube

C4_Witness ==
  /\ strategy = "grid" /\ nthreads = 1 /\ os = 2
  /\ Cardinality(Masked) = 2
  /\ Cardinality(Grid(size)) > 2
  /\ nfalse[1] >= 1
  /\ Cardinality(Trues) = 16

\* C5: Grid_per_voxel run to exhaustion by any number of threads emits what
\* the single caller emits: every (masked voxel, counter in {0..os-1}^3)
\* pair exactly once and nothing else.
C5_GridThreadSafety ==
  (strategy = "grid" /\ Quiescent) =>
     /\ \A i \in Trues : log[i].vox \in Masked /\ log[i].pos \in Cube
     /\ \A v \in Masked : \A ps \in Cube :
          Cardinality({ i \in Seeds(v) : log[i].pos = ps }) = 1
     /\ Cardinality(Trues) = os * os * os * Cardinality(Masked)

\* C7: whenever Random_per_voxel or Grid_per_voxel returns true, the cursor
\* voxel the point is built from lies inside the grid and is masked.
C7_MaskFidelity ==
  \A i \in Trues : InGrid(log[i].vox, size) /\ value[log[i].vox]

\* C10: the cursor starts before voxel (0,0,0) and its k-th increment puts
\* it on the voxel of raster position k-1 (axis 2 fastest, axis 0 slowest),
\* so every grid voxel is taken exactly once; by the time expired is set
\* all of them have been taken; and the voxels of successive true returns
\* never go back in that order.
C10_RasterOrder ==
  (strategy \in {"random", "grid"}) =>
     /\ steps = 0 => index = <<0, 0, -1>>
     /\ steps >= 1 => /\ Lin(index) = steps - 1
                      /\ 0 <= index[2] /\ index[2] < size[2]
                      /\ 0 <= index[3] /\ index[3] < size[3]
     /\ expired => steps >= Cardinality(Grid(size)) + 1
     /\ (Len(log) >= 1 /\ log[Len(log)].ret) =>
          \A i \in 1..Len(log) :
             log[i].ret => Lin(log[i].vox) <= Lin(log[Len(log)].vox)

C10_Witness ==
  /\ nthreads = 2 /\ expired
  /\ size[2] = 2 /\ size[3] = 2
  /\ Cardinality(Masked) >= 2
  /\ Cardinality({ log[i].vox : i \in Trues }) >= 2
  /\ log[Len(log)].ret

\* the positions of a call between the acquisition of the mutex (line 78 /
\* 118) and its return
Locked == {"test", "loop", "exit", "emit"}

\* the threads past the lock acquisition
Holders == { t \in Threads : pc[t] \in Locked }

\* a step that writes the cursor, a counter or expired
WritesCursor ==
  index' # index \/ inc' # inc \/ pos' # pos \/ expired' # expired

\* a step in which thread t acts and no other thread moves or returns
StepOf(t) ==
  \A u \in Threads \ {t} : pc'[u] = pc[u] /\ nfalse'[u] = nfalse[u]

\* C11: in Random_per_voxel and Grid_per_voxel at most one thread is past
\* the lock acquisition and it is the holder of the mutex; every step that
\* writes index, inc, pos or expired, and the step that builds the returned
\* point from index and pos, is a step of the thread holding the mutex; the
\* voxel and slot a call returns are the ones that call settled on.
C11_LockDiscipline ==
  /\ [](/\ Cardinality(Holders) <= 1
        /\ \A t \in Threads : t \in Holders <=> mutex = t
        /\ \A t \in Threads :
              pc[t] = "emit" => chosen = <<index, inc, pos>>)
  /\ [][ /\ WritesCursor => (mutex \in Holders /\ StepOf(mutex))
         /\ (Len(log') > Len(log) /\ log'[Len(log')].ret) =>
              /\ mutex \in Holders /\ StepOf(mutex)
              /\ <<log'[Len(log')].vox, inc, log'[Len(log')].pos>> = chosen ]_vars

C11_Witness ==
  /\ nthreads = 2
  /\ pc[1] = "emit" /\ pc[2] = "wait"
  /\ \E i \in Trues : TRUE

\* C14: a get_seed call of Random_per_voxel or Grid_per_voxel that holds the
\* mutex returns after at most (number of grid voxels + 1) iterations of the
\* cursor-advance loop, whatever the grid, the mask, num or os and the
\* number of concurrent callers.
C14_CallTerminates ==
  (strategy \in {"random", "grid"}) => iters <= Cardinality(Grid(size)) + 1

\* C15: every mask.value() of the cursor-advance loop is read at an index
\* inside the grid, and the cursor never goes beyond the end position
\* (size(0), 0, 0).
C15_InBoundsReads ==
  (strategy \in {"random", "grid"}) =>
     /\ ~oob
     /\ steps >= 1 => Lin(index) <= Cardinality(Grid(size))


\* ==================================================================
\* SeedMask::get_seed
\* ==================================================================
InitSeedMask ==
  /\ strategy = "seedmask"
  /\ nthreads \in 1..MaxThreads
  /\ size \in Shapes
  /\ value \in [Grid(size) -> BOOLEAN]
  /\ index = Zero3
  /\ seed = [t \in Threads |-> Zero3]
  /\ pc = [t \in Threads |-> "call"]
  /\ nfalse = [t \in Threads |-> 0]
  /\ log = <<>>
  /\ inc = 0 /\ num = 1 /\ os = 1 /\ pos = Zero3
  /\ expired = FALSE /\ mutex = 0 /\ steps = 0 /\ oob = FALSE
  /\ chosen = <<>> /\ iters = 0
  /\ NoImageIO
  /\ NoSphere /\ NoRejection

\* uniform_int_distribution<int>(0, size(d)-1) on every axis, one bound late
DrawIndexInclusive(sz) == (0..sz[1]) \X (0..sz[2]) \X (0..sz[3])

\* lines 57-59 / 224-226: uniform_int_distribution<int>(0, size(d)-1)
DrawIndex(sz) == Grid(sz)

\* line 55: auto seed = mask
SM_copy(t) ==
  /\ pc[t] = "call"
  /\ seed' = [seed EXCEPT ![t] = index]
  /\ pc' = [pc EXCEPT ![t] = "draw"]
  /\ UNCHANGED <<chosen, iters, strategy, nthreads, size, value, index, inc, num, pos, os,
                 expired, mutex, nfalse, log, steps, oob>>
  /\ UNCHANGED <<rad, p, selector, max, volume, bottom, top, image, ctor>>
  /\ UNCHANGED ioVars

\* lines 56-60: one iteration of the do-loop and its condition
SM_draw(t) ==
  /\ pc[t] = "draw"
  /\ \E i \in DrawIndex(size) :
       /\ seed' = [seed EXCEPT ![t] = i]
       /\ oob' = (oob \/ ~InGrid(i, size))
       /\ \E v \in MaskValue(i) :
            pc' = [pc EXCEPT ![t] = IF v THEN "emit" ELSE "draw"]
  /\ UNCHANGED <<chosen, iters, strategy, nthreads, size, value, index, inc, num, pos, os,
                 expired, mutex, nfalse, log, steps>>
  /\ UNCHANGED <<rad, p, selector, max, volume, bottom, top, image, ctor>>
  /\ UNCHANGED ioVars

\* lines 61-64: the point is built from the local cursor; log keeps the
\* latest return only
SM_emit(t) ==
  /\ pc[t] = "emit"
  /\ log' = <<Ret(TRUE, seed[t], Zero3)>>
  /\ pc' = [pc EXCEPT ![t] = "call"]
  /\ UNCHANGED <<chosen, iters, strategy, nthreads, size, value, index, inc, num, pos, os,
                 expired, mutex, nfalse, steps, oob>>
  /\ UNCHANGED otherVars

NextSeedMask ==
  \/ \E t \in Threads : SM_copy(t)
  \/ \E t \in Threads : SM_draw(t)
  \/ \E t \in Threads : SM_emit(t)

SpecSeedMask == InitSeedMask /\ [][NextSeedMask]_vars

\* C8: SeedMask::get_seed never returns false; the voxel a call is about to
\* build its point from, and the voxel of every return, lies inside the grid
\* and is masked, whatever the other threads do; and the shared mask cursor
\* is never written.
C8_SeedMaskFidelity ==
  (strategy = "seedmask") =>
     /\ \A i \in 1..Len(log) :
          log[i].ret /\ InGrid(log[i].vox, size) /\ value[log[i].vox]
     /\ \A t \in Threads :
          pc[t] = "emit" => (InGrid(seed[t], size) /\ value[seed[t]])
     /\ \A t \in Threads : nfalse[t] = 0
     /\ index = Zero3

C8_Witness ==
  /\ strategy = "seedmask" /\ nthreads = 2
  /\ Cardinality(Masked) = 2
  /\ Cardinality(Grid(size)) = 4
  /\ pc[1] = "emit" /\ pc[2] = "emit" /\ seed[1] # seed[2]
  /\ Len(log) = 1

\* ==================================================================
\* Sphere::get_seed (it touches its argument and the thread's rng only, so
\* one caller is followed)
\* ==================================================================
Lattice == (-Res)..Res

\* the centres followed: one per c, different on every axis
Centres == { <<c, -c, 2 * c>> : c \in (-MaxCentre)..MaxCentre }

InitSphere ==
  /\ strategy = "sphere"
  /\ nthreads = 1
  /\ pos \in Centres
  /\ rad \in 0..MaxRad
  /\ p = Zero3
  /\ pc = [t \in Threads |-> "call"]
  /\ nfalse = [t \in Threads |-> 0]
  /\ log = <<>>
  /\ size = <<1, 1, 1>> /\ value = <<>> /\ index = Zero3
  /\ inc = 0 /\ num = 1 /\ os = 1
  /\ expired = FALSE /\ mutex = 0 /\ steps = 0 /\ oob = FALSE
  /\ chosen = <<>> /\ iters = 0
  /\ NoImageIO
  /\ NoSeedMask /\ NoRejection

\* Eigen's squaredNorm(), of a candidate c/Res, times Res^2
SquaredNorm(c) == c[1] * c[1] + c[2] * c[2] + c[3] * c[3]

\* the loop condition testing the largest coordinate instead of the norm
OutsideUnitCube(c) == \E d \in 1..3 : c[d] * c[d] > Res * Res

\* line 44: p.squaredNorm() > 1.0f
OutsideUnitBall(c) == SquaredNorm(c) > Res * Res

\* lines 42-44: one iteration of the do-loop and its condition; a new call
\* starts with no return value
Sphere_draw(t) ==
  /\ pc[t] \in {"call", "draw"}
  /\ \E c \in Lattice \X Lattice \X Lattice :
       /\ p' = c
       /\ pc' = [pc EXCEPT ![t] = IF OutsideUnitBall(c) THEN "draw" ELSE "scale"]
  /\ log' = <<>>
  /\ UNCHANGED <<chosen, iters, strategy, nthreads, size, value, index, inc, num, pos, os,
                 expired, mutex, nfalse, steps, oob>>
  /\ UNCHANGED <<seed, rad, selector, max, volume, bottom, top, image, ctor>>
  /\ UNCHANGED ioVars

\* lines 45-46: p = pos + rad*p, in units of 1/Res
Sphere_scale(t) ==
  /\ pc[t] = "scale"
  /\ p' = [d \in 1..3 |-> Res * pos[d] + rad * p[d]]
  /\ log' = <<Ret(TRUE, p', Zero3)>>
  /\ pc' = [pc EXCEPT ![t] = "call"]
  /\ UNCHANGED <<chosen, iters, strategy, nthreads, size, value, index, inc, num, pos, os,
                 expired, mutex, nfalse, steps, oob>>
  /\ UNCHANGED <<seed, rad, selector, max, volume, bottom, top, image, ctor>>
  /\ UNCHANGED ioVars

NextSphere ==
  \/ \E t \in Threads : Sphere_draw(t)
  \/ \E t \in Threads : Sphere_scale(t)

SpecSphere == InitSphere /\ [][NextSphere]_vars

\* squared distance of a point from the centre, times Res^2
Dist2(q) ==
  (q[1] - Res * pos[1]) * (q[1] - Res * pos[1])
  + (q[2] - Res * pos[2]) * (q[2] - Res * pos[2])
  + (q[3] - Res * pos[3]) * (q[3] - Res * pos[3])

\* C9: Sphere::get_seed returns true only, the candidate it scales has
\* squared norm <= 1, and the returned point p has |p - pos|^2 <= rad^2.
C9_SphereContainment ==
  (strategy = "sphere") =>
     /\ \A t \in Threads : nfalse[t] = 0
     /\ \A t \in Threads : pc[t] = "scale" => SquaredNorm(p) <= Res * Res
     /\ \A i \in 1..Len(log) :
          /\ log[i].ret
          /\ log[i].vox = p
          /\ Dist2(log[i].vox) <= rad * rad * Res * Res

C9_Witness ==
  /\ strategy = "sphere" /\ rad = 2 /\ pos = <<1, -1, 2>>
  /\ Len(log) = 1 /\ log[1].ret
  /\ Dist2(log[1].vox) = rad * rad * Res * Res


\* ==================================================================
\* Rejection: constructor and get_seed (nearest-voxel build); get_seed
\* touches its locals and the thread's rng only, so one caller is followed
\* ==================================================================
Densities == (-1)..MaxDensity

\* lines 151-160: the members and locals before the scan
InitRejection ==
  /\ strategy = "rejection"
  /\ nthreads = 1
  /\ size \in Shapes
  /\ value \in [Grid(size) -> Densities]
  /\ index = Zero3
  /\ max = 0
  /\ volume = 0
  /\ bottom = <<SizeMax, SizeMax, SizeMax>>
  /\ top = Zero3
  /\ image = NoImage
  /\ ctor = "scan"
  /\ seed = [t \in Threads |-> Zero3]
  /\ selector = [t \in Threads |-> 0]
  /\ pc = [t \in Threads |-> "call"]
  /\ nfalse = [t \in Threads |-> 0]
  /\ log = <<>>
  /\ inc = 0 /\ num = 1 /\ os = 1 /\ pos = Zero3
  /\ expired = FALSE /\ mutex = 0 /\ steps = 0 /\ oob = FALSE
  /\ chosen = <<>> /\ iters = 0
  /\ NoImageIO
  /\ NoSphere

\* Loop (0,3): the next voxel, axis 0 fastest; index(2) = size(2) at the end
ScanNext(idx, sz) ==
  IF idx[1] + 1 < sz[1]
    THEN <<idx[1] + 1, idx[2], idx[3]>>
    ELSE IF idx[2] + 1 < sz[2]
           THEN <<0, idx[2] + 1, idx[3]>>
           ELSE <<0, 0, idx[3] + 1>>

\* a negative value taken for an empty voxel
NegativeIgnored(v) == FALSE

\* line 165: value < 0.0
Negative(v) == v < 0

\* a lower corner that follows the latest non-zero voxel
LowerLatest(b, idx) == idx

\* lines 169-174: the bounding box takes in the voxel idx
Lower(b, idx) == [d \in 1..3 |-> IF idx[d] < b[d] THEN idx[d] ELSE b[d]]

Upper(u, idx) == [d \in 1..3 |-> IF idx[d] > u[d] THEN idx[d] ELSE u[d]]

\* lines 162-176: one iteration of the scan
Rej_scan ==
  /\ ctor = "scan"
  /\ LET v == value[index] IN
       IF v # 0 /\ Negative(v)
         THEN /\ ctor' = "negative"
              /\ UNCHANGED <<index, max, volume, bottom, top>>
         ELSE /\ IF v # 0
                   THEN /\ max' = MaxI(max, v)
                        /\ volume' = volume + v
                        /\ bottom' = Lower(bottom, index)
                        /\ top' = Upper(top, index)
                   ELSE UNCHANGED <<max, volume, bottom, top>>
              /\ index' = ScanNext(index, size)
              /\ ctor' = IF index'[3] = size[3] THEN "check" ELSE "scan"
  /\ UNCHANGED <<chosen, iters, strategy, nthreads, size, value, inc, num, pos, os,
                 expired, mutex, pc, nfalse, log, steps, oob>>
  /\ UNCHANGED <<seed, rad, p, selector, image>>
  /\ UNCHANGED ioVars

\* lines 178-183: an image without a positive voxel is refused, the lower
\* corner is moved out by one voxel
Rej_empty ==
  /\ ctor = "check"
  /\ IF max = 0
       THEN /\ ctor' = "empty"
            /\ bottom' = bottom
       ELSE /\ ctor' = "crop"
            /\ bottom' = [d \in 1..3 |-> IF bottom[d] # 0 THEN bottom[d] - 1
                                                         ELSE bottom[d]]
  /\ UNCHANGED <<chosen, iters, strategy, nthreads, size, value, index, inc, num, pos, os,
                 expired, mutex, pc, nfalse, log, steps, oob>>
  /\ UNCHANGED <<seed, rad, p, selector, max, volume, top, image>>
  /\ UNCHANGED ioVars

\* Adapter::Subset and the scratch copy of it: the voxels from..to of data
Subset(data, from, to) ==
  LET sz == [d \in 1..3 |-> to[d] - from[d] + 1] IN
    [size |-> sz,
     data |-> [v \in Grid(sz) |->
                 data[<<v[1] + from[1], v[2] + from[2], v[3] + from[3]>>]]]

\* lines 185-197: the working volume
Rej_crop ==
  /\ ctor = "crop"
  /\ image' = Subset(value, bottom, top)
  /\ volume' = volume * image'.size[1] * image'.size[2] * image'.size[3]
  /\ ctor' = "ready"
  /\ UNCHANGED <<chosen, iters, strategy, nthreads, size, value, index, inc, num, pos, os,
                 expired, mutex, pc, nfalse, log, steps, oob>>
  /\ UNCHANGED <<seed, rad, p, selector, max, bottom, top>>
  /\ UNCHANGED ioVars

\* thresholds that go past max
ThresholdsBeyond(m) == 0..(2 * m + 1)

\* line 227: uniform (rng) * max, a threshold in [0, max), in halves
Thresholds(m) == 0..(2 * m - 1)

\* line 221: auto seed = image, on a constructed object; a new call starts
\* with no return value
Rej_copy(t) ==
  /\ ctor = "ready"
  /\ pc[t] = "call"
  /\ seed' = [seed EXCEPT ![t] = Zero3]
  /\ pc' = [pc EXCEPT ![t] = "draw"]
  /\ log' = <<>>
  /\ UNCHANGED <<chosen, iters, strategy, nthreads, size, value, index, inc, num, pos, os,
                 expired, mutex, nfalse, steps, oob>>
  /\ UNCHANGED <<rad, p, selector, max, volume, bottom, top, image, ctor>>
  /\ UNCHANGED ioVars

\* lines 223-228: one iteration of the do-loop and its condition
Rej_draw(t) ==
  /\ pc[t] = "draw"
  /\ \E i \in DrawIndex(image.size) : \E u \in Thresholds(max) :
       /\ seed' = [seed EXCEPT ![t] = i]
       /\ selector' = [selector EXCEPT ![t] = u]
       /\ pc' = [pc EXCEPT ![t] =
                   IF 2 * image.data[i] < u THEN "draw" ELSE "emit"]
  /\ UNCHANGED <<chosen, iters, strategy, nthreads, size, value, index, inc, num, pos, os,
                 expired, mutex, nfalse, log, steps, oob>>
  /\ UNCHANGED <<rad, p, max, volume, bottom, top, image, ctor>>
  /\ UNCHANGED ioVars

\* lines 229-232: the point is built from the local cursor
Rej_emit(t) ==
  /\ pc[t] = "emit"
  /\ log' = <<Ret(TRUE, seed[t], Zero3)>>
  /\ pc' = [pc EXCEPT ![t] = "call"]
  /\ UNCHANGED <<chosen, iters, strategy, nthreads, size, value, index, inc, num, pos, os,
                 expired, mutex, nfalse, steps, oob>>
  /\ UNCHANGED otherVars

NextRejection ==
  \/ Rej_scan
  \/ Rej_empty
  \/ Rej_crop
  \/ \E t \in Threads : Rej_copy(t)
  \/ \E t \in Threads : Rej_draw(t)
  \/ \E t \in Threads : Rej_emit(t)

SpecRejection == InitRejection /\ [][NextRejection]_vars

\* an iteration of the do-loop whose draws end the loop
Rej_accept(t) == Rej_draw(t) /\ pc'[t] = "emit"

\* fair random draws: draws that can end the loop again and again do end it;
\* the constructor and the caller's own steps are not held up
SpecRejectionFair ==
  /\ SpecRejection
  /\ WF_vars(Rej_scan \/ Rej_empty \/ Rej_crop)
  /\ SF_vars(\E t \in Threads : Rej_accept(t))
  /\ WF_vars(\E t \in Threads : Rej_emit(t))

HasNegative == \E v \in Grid(size) : value[v] < 0

HasPositive == \E v \in Grid(size) : value[v] > 0

\* C6: the Rejection constructor succeeds exactly when the density image
\* has no negative voxel and some positive voxel: with a negative voxel it
\* ends in the error of line 166, with no negative and no positive voxel in
\* the error of line 179, and after an error there is no working volume and
\* no get_seed.
C6_ConstructionRejection ==
  (strategy = "rejection") =>
     /\ ctor \in {"crop", "ready"} => (~HasNegative /\ HasPositive)
     /\ ctor = "check" => ~HasNegative
     /\ ctor = "negative" => HasNegative
     /\ ctor = "empty" => (~HasNegative /\ ~HasPositive)
     /\ ctor # "ready" =>
          /\ image = NoImage
          /\ log = <<>>
          /\ \A t \in Threads : pc[t] = "call"

C6_Witness ==
  /\ strategy = "rejection"
  /\ ctor = "negative"
  /\ HasPositive
  /\ max > 0
  /\ Cardinality(Grid(size)) = 4

\* the voxels of the density image with a non-zero value
NonZero == { v \in Grid(size) : value[v] # 0 }

\* smallest and largest index along axis d over the non-zero voxels
MinIndex(d) == CHOOSE m \in { v[d] : v \in NonZero } :
                 \A v \in NonZero : m <= v[d]
MaxIndex(d) == CHOOSE m \in { v[d] : v \in NonZero } :
                 \A v \in NonZero : m >= v[d]

\* C12: after a successful scan (lines 162-183), on every axis d top[d] is
\* the largest index over the non-zero voxels and bottom[d] is
\* max(0, m_d - 1) with m_d the smallest such index, so every non-zero voxel
\* lies in bottom..top; max is the largest voxel value and is positive.
C12_BoundingBox ==
  (strategy = "rejection" /\ ctor \in {"crop", "ready"}) =>
     /\ \A d \in 1..3 :
          /\ top[d] = MaxIndex(d)
          /\ bottom[d] = MaxI(0, MinIndex(d) - 1)
     /\ \A v \in NonZero : \A d \in 1..3 : bottom[d] <= v[d] /\ v[d] <= top[d]
     /\ max > 0
     /\ \E v \in Grid(size) : value[v] = max
     /\ \A v \in Grid(size) : value[v] <= max

C12_Witness ==
  /\ strategy = "rejection" /\ ctor = "ready"
  /\ size = <<4, 1, 1>>
  /\ Cardinality(NonZero) = 2
  /\ bottom = <<1, 0, 0>> /\ top = <<3, 0, 0>>
  /\ value[<<2, 0, 0>>] = 1 /\ max = 2

\* the voxels of the working volume holding max
Peaks == { v \in Grid(image.size) : image.data[v] = max }

\* line 228: the candidate v passes the test against threshold u (in halves)
Accepted(v, u) == ~(2 * image.data[v] < u)

\* C13: on a constructed Rejection object every iteration of the loop of
\* get_seed has a candidate inside the working volume, a voxel holding max,
\* that is accepted for every threshold in [0, max); a call that returns
\* holds a candidate whose density is at least the threshold of the same
\* iteration and returns true, no call returns false; and under fair draws
\* every call that entered the loop returns.
C13_RejectionFinishes ==
  /\ [](ctor = "ready" =>
          /\ \E v \in Peaks : \A u \in Thresholds(max) : Accepted(v, u)
          /\ \A t \in Threads :
                /\ pc[t] = "draw" => ENABLED Rej_accept(t)
                /\ pc[t] = "emit" =>
                     /\ seed[t] \in Grid(image.size)
                     /\ selector[t] \in Thresholds(max)
                     /\ 2 * image.data[seed[t]] >= selector[t]
                /\ nfalse[t] = 0
          /\ \A i \in 1..Len(log) : log[i].ret)
  /\ (\E t \in Threads : pc[t] = "draw")
       ~> (\A t \in Threads : pc[t] = "call" /\ log # <<>>)

C13_Witness ==
  /\ strategy = "rejection" /\ ctor = "ready"
  /\ Cardinality(Peaks) = 1
  /\ Cardinality(Grid(image.size)) = 3
  /\ pc[1] = "emit" /\ selector[1] = 2 * max - 1
  /\ image.data[seed[1]] = max /\ max = 2

\* C16: on a constructed Rejection object no call of get_seed leaves the
\* loop with, or returns a point built from, a voxel of density zero,
\* whatever candidate and threshold in [0, max) were drawn.
C16_NoSeedInEmptySpace ==
  (strategy = "rejection" /\ ctor = "ready") =>
     /\ \A t \in Threads : pc[t] = "emit" => image.data[seed[t]] # 0
     /\ \A i \in 1..Len(log) : log[i].ret => image.data[log[i].vox] # 0

\* ==================================================================
\* ImageIO::Base (lib/image_io/base.h): the flags is_new and writable
\* ==================================================================
\* the File::Entry values, and the lists of them an object can hold
Entries == 1..MaxFiles

FileLists(n) == UNION { [1..k -> Entries] : k \in 0..n }

\* an object of a handler class: any flags, no files yet, its segments
\* either not loaded or loaded (one segment)
InitImageIO ==
  /\ strategy = "imageio"
  /\ nthreads = 1
  /\ is_new \in BOOLEAN
  /\ writable \in BOOLEAN
  /\ files = <<>>
  /\ segsize = 0
  /\ addresses \in {<<>>, <<1>>}
  /\ last = NoCall
  /\ size = <<1, 1, 1>> /\ value = [v \in Grid(size) |-> FALSE]
  /\ index = Zero3 /\ inc = 0 /\ num = 1 /\ os = 1 /\ pos = Zero3
  /\ expired = FALSE /\ mutex = 0 /\ steps = 0 /\ oob = FALSE
  /\ pc = [t \in Threads |-> "call"]
  /\ nfalse = [t \in Threads |-> 0]
  /\ log = <<>>
  /\ chosen = <<>> /\ iters = 0
  /\ NoSeedMask /\ NoSphere /\ NoRejection

Call(op, arg) == [op |-> op, arg |-> arg]

\* lines 71-73
set_readwrite(readwrite) ==
  /\ writable' = readwrite
  /\ last' = Call("set_readwrite", readwrite)
  /\ UNCHANGED <<is_new, files, segsize, addresses>>
  /\ UNCHANGED <<travVars, seed, rad, p, selector, max, volume, bottom, top,
                 image, ctor>>

\* lines 74-76
set_image_is_new(image_is_new) ==
  /\ is_new' = image_is_new
  /\ last' = Call("set_image_is_new", image_is_new)
  /\ UNCHANGED <<writable, files, segsize, addresses>>
  /\ UNCHANGED <<travVars, seed, rad, p, selector, max, volume, bottom, top,
                 image, ctor>>

\* a test that takes every image for an existing one
ExistingAlways(n) == TRUE

\* line 78: !is_new
Existing(n) == ~n

\* lines 77-80
set_readwrite_if_existing(readwrite) ==
  /\ writable' = IF Existing(is_new) THEN readwrite ELSE writable
  /\ last' = Call("set_readwrite_if_existing", readwrite)
  /\ UNCHANGED <<is_new, files, segsize, addresses>>
  /\ UNCHANGED <<travVars, seed, rad, p, selector, max, volume, bottom, top,
                 image, ctor>>

\* lines 96-101: the files of B are appended and its segsize added. The
\* assert of line 97 is compiled out of a release build, where the body runs
\* whatever addresses holds; in a debug build a failed assert ends the program.
merge(Bfiles, Bsegsize) ==
  /\ Len(files) + Len(Bfiles) <= MaxFiles
  /\ segsize + Bsegsize <= MaxSegsize
  /\ files' = files \o Bfiles
  /\ segsize' = segsize + Bsegsize
  /\ last' = Call("merge", FALSE)
  /\ UNCHANGED <<is_new, writable, addresses>>
  /\ UNCHANGED <<travVars, seed, rad, p, selector, max, volume, bottom, top,
                 image, ctor>>

NextImageIO ==
  \/ \E rw \in BOOLEAN : set_readwrite(rw)
  \/ \E b \in BOOLEAN : set_image_is_new(b)
  \/ \E rw \in BOOLEAN : set_readwrite_if_existing(rw)
  \/ \E Bfiles \in FileLists(MaxFiles) : \E Bsegsize \in 0..MaxSegsize :
        merge(Bfiles, Bsegsize)

SpecImageIO == InitImageIO /\ [][NextImageIO]_vars

\* C17: set_readwrite_if_existing(rw) sets writable to rw when the image is
\* not new and leaves writable as it was when the image is new; either way
\* is_new, files, segsize and addresses stay as they were; set_readwrite(rw)
\* sets writable to rw whatever is_new is.
C17_ReadWriteIfExisting ==
  [][ /\ last'.op = "set_readwrite_if_existing" =>
           /\ ~is_new => writable' = last'.arg
           /\ is_new => writable' = writable
           /\ is_new' = is_new /\ files' = files
           /\ segsize' = segsize /\ addresses' = addresses
      /\ last'.op = "set_readwrite" => writable' = last'.arg ]_vars

C17_Witness ==
  /\ last = Call("set_readwrite_if_existing", FALSE)
  /\ is_new /\ writable
  /\ Len(files) = 2 /\ segsize = 3 /\ addresses # <<>>

====
